---- MODULE Spec2Model ----
(***************************************************************************)
(* Tic-tac-toe game state of src/src/lib.rs: the Game struct (tiles,       *)
(* current_piece, winner), Game::new, Game::make_move and the incremental  *)
(* win check Game::update_winner.  A caller issues make_move calls with    *)
(* arbitrary usize arguments; the model records, next to the game itself,  *)
(* the game as it was before the latest call, the call's arguments and     *)
(* result, and the number of calls that returned Ok.                       *)
(***************************************************************************)
EXTENDS Integers, FiniteSets, Sequences, TLC

\* Largest argument value a caller passes for row or col (usize values
\* 0..MaxCoord; every value >= BOARD_SIZE is out of range).
MaxCoord == 3

\* const BOARD_SIZE: usize = 3;
BOARD_SIZE == 3

Idx == 0 .. (BOARD_SIZE - 1)
Coord == 0 .. MaxCoord

\* Longest input string, in characters, given to parse_move.
MaxLen == 3

\* enum Piece { X, O }
PieceX == "Piece::X"
PieceO == "Piece::O"
Piece == {PieceX, PieceO}

\* Option::None, for Tile = Option<Piece> and for Option<Winner>
None == "None"

\* type Tile = Option<Piece>
Tile == Piece \cup {None}

\* enum Winner { X, O, Tie }
WinnerX == "Winner::X"
WinnerO == "Winner::O"
WinnerTie == "Winner::Tie"
Winner == {WinnerX, WinnerO, WinnerTie}

\* enum MoveError, and Ok(()) of Result<(), MoveError>
ResOk == [kind |-> "Ok"]
GameAlreadyOver == [kind |-> "GameAlreadyOver"]
InvalidPosition(row, col) == [kind |-> "InvalidPosition", row |-> row, col |-> col]
TileNotEmpty(other_piece, row, col) ==
    [kind |-> "TileNotEmpty", other_piece |-> other_piece, row |-> row, col |-> col]

\* a panic of the call (index out of bounds, failed assertion, overflow)
Panic == [kind |-> "Panic"]

VARIABLES tiles, current_piece, winner, prev, last, moves, input, parsed, pc,
          line, eof, out

vars == <<tiles, current_piece, winner, prev, last, moves, input, parsed, pc,
          line, eof, out>>

\* A literal three-element array [a, b, c], indexed from 0.
Arr3(a, b, c) == [i \in Idx |-> IF i = 0 THEN a ELSE IF i = 1 THEN b ELSE c]

\* Piece::other
other_same(self) == self
other(self) == IF self = PieceX THEN PieceO ELSE PieceX

\* Option::or_else as used in update_winner: keep a Some, else take the alternative.
or_else(opt, alt) == IF opt # None THEN opt ELSE alt

\* Game::new
Game_new_O ==
    [tiles |-> [r \in Idx |-> [c \in Idx |-> None]],
     current_piece |-> PieceO,
     winner |-> None]
Game_new ==
    [tiles |-> [r \in Idx |-> [c \in Idx |-> None]],
     current_piece |-> PieceX,
     winner |-> None]

\* Game::is_finished reporting only a full board (a tie) as finished
is_finished_tie_only(self) == self.winner = WinnerTie
\* Game::is_finished
is_finished(self) == self.winner # None

\* check_winner with the two winners exchanged in the match
check_winner_swapped(row) ==
    IF row[0] = row[1] /\ row[1] = row[2]
    THEN IF row[0] = PieceX THEN WinnerO
         ELSE IF row[0] = PieceO THEN WinnerX
         ELSE None
    ELSE None

\* check_winner comparing only the first two tiles of the line
check_winner_two(row) ==
    IF row[0] = row[1]
    THEN IF row[0] = PieceX THEN WinnerX
         ELSE IF row[0] = PieceO THEN WinnerO
         ELSE None
    ELSE None

\* fn check_winner(row: &[Tile]) -> Option<Winner>, inner function of update_winner
check_winner(row) ==
    IF row[0] = row[1] /\ row[1] = row[2]
    THEN IF row[0] = PieceX THEN WinnerX
         ELSE IF row[0] = PieceO THEN WinnerO
         ELSE None
    ELSE None

\* the tie test with `any` for the outer `all`: some row is full
board_full_any(t) == \E r \in Idx : \A c \in Idx : t[r][c] # None
\* every tile of every row is Some
board_full(t) == \A r \in Idx : \A c \in Idx : t[r][c] # None

\* Game::update_winner with tiles_col built from the row of the move again
update_winner_badcol(self, row, col) ==
    LET rows == BOARD_SIZE
        tiles_row == self.tiles[row]
        tiles_col == Arr3(self.tiles[row][0], self.tiles[row][1], self.tiles[row][2])
        tiles_diagonal_1 ==
            IF row = col
            THEN Arr3(self.tiles[0][0], self.tiles[1][1], self.tiles[2][2])
            ELSE Arr3(None, None, None)
        tiles_diagonal_2 ==
            IF (rows - row - 1) = col
            THEN Arr3(self.tiles[0][2], self.tiles[1][1], self.tiles[2][0])
            ELSE Arr3(None, None, None)
        w1 == or_else(or_else(or_else(or_else(self.winner,
                    check_winner(tiles_row)),
                    check_winner(tiles_col)),
                    check_winner(tiles_diagonal_1)),
                    check_winner(tiles_diagonal_2))
        w2 == or_else(w1, IF board_full(self.tiles) THEN WinnerTie ELSE None)
    IN  [self EXCEPT !.winner = w2]

\* Game::update_winner testing only the second diagonal's condition for both diagonals
update_winner_baddiag(self, row, col) ==
    LET rows == BOARD_SIZE
        tiles_row == self.tiles[row]
        tiles_col == Arr3(self.tiles[0][col], self.tiles[1][col], self.tiles[2][col])
        tiles_diagonal_1 ==
            IF (rows - row - 1) = col
            THEN Arr3(self.tiles[0][0], self.tiles[1][1], self.tiles[2][2])
            ELSE Arr3(None, None, None)
        tiles_diagonal_2 ==
            IF (rows - row - 1) = col
            THEN Arr3(self.tiles[0][2], self.tiles[1][1], self.tiles[2][0])
            ELSE Arr3(None, None, None)
        w1 == or_else(or_else(or_else(or_else(self.winner,
                    check_winner(tiles_row)),
                    check_winner(tiles_col)),
                    check_winner(tiles_diagonal_1)),
                    check_winner(tiles_diagonal_2))
        w2 == or_else(w1, IF board_full(self.tiles) THEN WinnerTie ELSE None)
    IN  [self EXCEPT !.winner = w2]

\* Game::update_winner assigning the result of the checks without chaining
\* from the winner already stored
update_winner_overwrite(self, row, col) ==
    LET rows == BOARD_SIZE
        tiles_row == self.tiles[row]
        tiles_col == Arr3(self.tiles[0][col], self.tiles[1][col], self.tiles[2][col])
        tiles_diagonal_1 ==
            IF row = col
            THEN Arr3(self.tiles[0][0], self.tiles[1][1], self.tiles[2][2])
            ELSE Arr3(None, None, None)
        tiles_diagonal_2 ==
            IF (rows - row - 1) = col
            THEN Arr3(self.tiles[0][2], self.tiles[1][1], self.tiles[2][0])
            ELSE Arr3(None, None, None)
        w1 == or_else(or_else(or_else(check_winner(tiles_row),
                    check_winner(tiles_col)),
                    check_winner(tiles_diagonal_1)),
                    check_winner(tiles_diagonal_2))
        w2 == or_else(w1, IF board_full(self.tiles) THEN WinnerTie ELSE None)
    IN  [self EXCEPT !.winner = w2]

\* Game::update_winner testing rows - row, without the - 1, for the second diagonal
update_winner_baddiag2(self, row, col) ==
    LET rows == BOARD_SIZE
        tiles_row == self.tiles[row]
        tiles_col == Arr3(self.tiles[0][col], self.tiles[1][col], self.tiles[2][col])
        tiles_diagonal_1 ==
            IF row = col
            THEN Arr3(self.tiles[0][0], self.tiles[1][1], self.tiles[2][2])
            ELSE Arr3(None, None, None)
        tiles_diagonal_2 ==
            IF (rows - row) = col
            THEN Arr3(self.tiles[0][2], self.tiles[1][1], self.tiles[2][0])
            ELSE Arr3(None, None, None)
        w1 == or_else(or_else(or_else(or_else(self.winner,
                    check_winner(tiles_row)),
                    check_winner(tiles_col)),
                    check_winner(tiles_diagonal_1)),
                    check_winner(tiles_diagonal_2))
        w2 == or_else(w1, IF board_full(self.tiles) THEN WinnerTie ELSE None)
    IN  [self EXCEPT !.winner = w2]

\* Game::update_winner testing the full board before the lines
update_winner_tie_first(self, row, col) ==
    LET rows == BOARD_SIZE
        tiles_row == self.tiles[row]
        tiles_col == Arr3(self.tiles[0][col], self.tiles[1][col], self.tiles[2][col])
        tiles_diagonal_1 ==
            IF row = col
            THEN Arr3(self.tiles[0][0], self.tiles[1][1], self.tiles[2][2])
            ELSE Arr3(None, None, None)
        tiles_diagonal_2 ==
            IF (rows - row - 1) = col
            THEN Arr3(self.tiles[0][2], self.tiles[1][1], self.tiles[2][0])
            ELSE Arr3(None, None, None)
        w0 == or_else(self.winner, IF board_full(self.tiles) THEN WinnerTie ELSE None)
        w1 == or_else(or_else(or_else(or_else(w0,
                    check_winner(tiles_row)),
                    check_winner(tiles_col)),
                    check_winner(tiles_diagonal_1)),
                    check_winner(tiles_diagonal_2))
        w2 == w1
    IN  [self EXCEPT !.winner = w2]

\* Game::update_winner without the full-board step
update_winner_no_tie(self, row, col) ==
    LET rows == BOARD_SIZE
        tiles_row == self.tiles[row]
        tiles_col == Arr3(self.tiles[0][col], self.tiles[1][col], self.tiles[2][col])
        tiles_diagonal_1 ==
            IF row = col
            THEN Arr3(self.tiles[0][0], self.tiles[1][1], self.tiles[2][2])
            ELSE Arr3(None, None, None)
        tiles_diagonal_2 ==
            IF (rows - row - 1) = col
            THEN Arr3(self.tiles[0][2], self.tiles[1][1], self.tiles[2][0])
            ELSE Arr3(None, None, None)
        w1 == or_else(or_else(or_else(or_else(self.winner,
                    check_winner(tiles_row)),
                    check_winner(tiles_col)),
                    check_winner(tiles_diagonal_1)),
                    check_winner(tiles_diagonal_2))
        w2 == w1
    IN  [self EXCEPT !.winner = w2]

\* Game::update_winner
update_winner(self, row, col) ==
    LET rows == BOARD_SIZE
        tiles_row == self.tiles[row]
        tiles_col == Arr3(self.tiles[0][col], self.tiles[1][col], self.tiles[2][col])
        tiles_diagonal_1 ==
            IF row = col
            THEN Arr3(self.tiles[0][0], self.tiles[1][1], self.tiles[2][2])
            ELSE Arr3(None, None, None)
        tiles_diagonal_2 ==
            IF (rows - row - 1) = col
            THEN Arr3(self.tiles[0][2], self.tiles[1][1], self.tiles[2][0])
            ELSE Arr3(None, None, None)
        w1 == or_else(or_else(or_else(or_else(self.winner,
                    check_winner(tiles_row)),
                    check_winner(tiles_col)),
                    check_winner(tiles_diagonal_1)),
                    check_winner(tiles_diagonal_2))
        w2 == or_else(w1, IF board_full(self.tiles) THEN WinnerTie ELSE None)
    IN  [self EXCEPT !.winner = w2]

\* Game::make_move checking the position before the finished game
make_move_poscheck_first(self, row, col) ==
    IF row >= BOARD_SIZE \/ col >= BOARD_SIZE
    THEN [game |-> self, result |-> InvalidPosition(row, col)]
    ELSE IF is_finished(self)
    THEN [game |-> self, result |-> GameAlreadyOver]
    ELSE IF self.tiles[row][col] # None
    THEN [game |-> self, result |-> TileNotEmpty(self.tiles[row][col], row, col)]
    ELSE LET placed == [self EXCEPT !.tiles[row][col] = self.current_piece]
             flipped == [placed EXCEPT !.current_piece = other(placed.current_piece)]
         IN  [game |-> update_winner(flipped, row, col), result |-> ResOk]

\* Game::make_move without the finished-game guard, calling an update_winner
\* that overwrites the stored winner
make_move_unguarded(self, row, col) ==
    IF row >= BOARD_SIZE \/ col >= BOARD_SIZE
    THEN [game |-> self, result |-> InvalidPosition(row, col)]
    ELSE IF self.tiles[row][col] # None
    THEN [game |-> self, result |-> TileNotEmpty(self.tiles[row][col], row, col)]
    ELSE LET placed == [self EXCEPT !.tiles[row][col] = self.current_piece]
             flipped == [placed EXCEPT !.current_piece = other(placed.current_piece)]
         IN  [game |-> update_winner_overwrite(flipped, row, col), result |-> ResOk]

\* Game::make_move flipping the current piece before the occupied-tile check
make_move_flip_early(self, row, col) ==
    IF is_finished(self)
    THEN [game |-> self, result |-> GameAlreadyOver]
    ELSE IF row >= BOARD_SIZE \/ col >= BOARD_SIZE
    THEN [game |-> self, result |-> InvalidPosition(row, col)]
    ELSE LET flipped == [self EXCEPT !.current_piece = other(self.current_piece)]
         IN  IF self.tiles[row][col] # None
             THEN [game |-> flipped,
                   result |-> TileNotEmpty(self.tiles[row][col], row, col)]
             ELSE [game |-> update_winner(
                               [flipped EXCEPT !.tiles[row][col] = self.current_piece],
                               row, col),
                   result |-> ResOk]

\* Game::make_move reporting the current piece as the occupant of a taken tile
make_move_wrong_occupant(self, row, col) ==
    IF is_finished(self)
    THEN [game |-> self, result |-> GameAlreadyOver]
    ELSE IF row >= BOARD_SIZE \/ col >= BOARD_SIZE
    THEN [game |-> self, result |-> InvalidPosition(row, col)]
    ELSE IF self.tiles[row][col] # None
    THEN [game |-> self, result |-> TileNotEmpty(self.current_piece, row, col)]
    ELSE LET placed == [self EXCEPT !.tiles[row][col] = self.current_piece]
             flipped == [placed EXCEPT !.current_piece = other(placed.current_piece)]
         IN  [game |-> update_winner(flipped, row, col), result |-> ResOk]

\* Game::make_move checking only the row against the board size
make_move_row_only(self, row, col) ==
    IF is_finished(self)
    THEN [game |-> self, result |-> GameAlreadyOver]
    ELSE IF row >= BOARD_SIZE
    THEN [game |-> self, result |-> InvalidPosition(row, col)]
    ELSE IF col >= BOARD_SIZE \/ self.tiles[row][col] # None
    THEN [game |-> self,
          result |-> TileNotEmpty(IF col >= BOARD_SIZE THEN self.current_piece
                                  ELSE self.tiles[row][col], row, col)]
    ELSE LET placed == [self EXCEPT !.tiles[row][col] = self.current_piece]
             flipped == [placed EXCEPT !.current_piece = other(placed.current_piece)]
         IN  [game |-> update_winner(flipped, row, col), result |-> ResOk]

\* Game::make_move keeping the turn with the mover when the move ends the game
make_move_noflip_at_end(self, row, col) ==
    IF is_finished(self)
    THEN [game |-> self, result |-> GameAlreadyOver]
    ELSE IF row >= BOARD_SIZE \/ col >= BOARD_SIZE
    THEN [game |-> self, result |-> InvalidPosition(row, col)]
    ELSE IF self.tiles[row][col] # None
    THEN [game |-> self, result |-> TileNotEmpty(self.tiles[row][col], row, col)]
    ELSE LET placed == [self EXCEPT !.tiles[row][col] = self.current_piece]
             updated == update_winner(placed, row, col)
         IN  [game |-> IF is_finished(updated) THEN updated
                       ELSE [updated EXCEPT !.current_piece = other(placed.current_piece)],
              result |-> ResOk]

\* Game::make_move building InvalidPosition with row and col exchanged
make_move_swapped(self, row, col) ==
    IF is_finished(self)
    THEN [game |-> self, result |-> GameAlreadyOver]
    ELSE IF row >= BOARD_SIZE \/ col >= BOARD_SIZE
    THEN [game |-> self, result |-> InvalidPosition(col, row)]
    ELSE IF self.tiles[row][col] # None
    THEN [game |-> self, result |-> TileNotEmpty(self.tiles[row][col], row, col)]
    ELSE LET placed == [self EXCEPT !.tiles[row][col] = self.current_piece]
             flipped == [placed EXCEPT !.current_piece = other(placed.current_piece)]
         IN  [game |-> update_winner(flipped, row, col), result |-> ResOk]

\* Game::make_move without the occupied-tile test
make_move_overwrite(self, row, col) ==
    IF is_finished(self)
    THEN [game |-> self, result |-> GameAlreadyOver]
    ELSE IF row >= BOARD_SIZE \/ col >= BOARD_SIZE
    THEN [game |-> self, result |-> InvalidPosition(row, col)]
    ELSE LET placed == [self EXCEPT !.tiles[row][col] = self.current_piece]
             flipped == [placed EXCEPT !.current_piece = other(placed.current_piece)]
         IN  [game |-> update_winner(flipped, row, col), result |-> ResOk]

\* Game::make_move: the three error returns in the order of the code, then
\* the placement, the flip of the current piece and the winner update
make_move(self, row, col) ==
    IF is_finished(self)
    THEN [game |-> self, result |-> GameAlreadyOver]
    ELSE IF row >= BOARD_SIZE \/ col >= BOARD_SIZE
    THEN [game |-> self, result |-> InvalidPosition(row, col)]
    ELSE IF self.tiles[row][col] # None
    THEN [game |-> self, result |-> TileNotEmpty(self.tiles[row][col], row, col)]
    ELSE LET placed == [self EXCEPT !.tiles[row][col] = self.current_piece]
             flipped == [placed EXCEPT !.current_piece = other(placed.current_piece)]
         IN  [game |-> update_winner(flipped, row, col), result |-> ResOk]

\* Panic sites of Game::update_winner: the indexing of self.tiles by row and
\* col, the board-size assertion and the usize subtraction rows - row - 1
update_winner_panics(self, row, col) ==
    LET rows == BOARD_SIZE
        cols == BOARD_SIZE
    IN  \/ row >= rows
        \/ col >= cols
        \/ ~(rows = 3 /\ cols = 3)
        \/ rows - row - 1 < 0

\* Game::make_move with the bounds test written with > instead of >=
make_move_panics_offbyone(self, row, col) ==
    IF is_finished(self) THEN FALSE
    ELSE IF row > BOARD_SIZE \/ col > BOARD_SIZE THEN FALSE
    ELSE \/ row >= BOARD_SIZE
         \/ col >= BOARD_SIZE
         \/ (self.tiles[row][col] = None /\ update_winner_panics(self, row, col))

\* Panic sites of Game::make_move along its control flow: the read of
\* self.tiles[row][col] after the bounds test, then update_winner
make_move_panics(self, row, col) ==
    IF is_finished(self) THEN FALSE
    ELSE IF row >= BOARD_SIZE \/ col >= BOARD_SIZE THEN FALSE
    ELSE \/ row >= BOARD_SIZE
         \/ col >= BOARD_SIZE
         \/ (self.tiles[row][col] = None /\ update_winner_panics(self, row, col))

\* A call game.make_move(row, col): the game after it and what it returned,
\* or the panic that ended it
call_make_move(self, row, col) ==
    IF make_move_panics(self, row, col)
    THEN [game |-> self, result |-> Panic]
    ELSE make_move(self, row, col)

\* no parse_move call yet
NotParsed == [kind |-> "NotParsed"]
\* no read_line call yet
NotRead == [kind |-> "NotRead"]

\* The game as a value: the three fields of struct Game
game == [tiles |-> tiles, current_piece |-> current_piece, winner |-> winner]

Init ==
    /\ tiles = Game_new.tiles
    /\ current_piece = Game_new.current_piece
    /\ winner = Game_new.winner
    /\ prev = Game_new
    /\ last = [op |-> "new"]
    /\ moves = 0
    /\ input = <<>>
    /\ parsed = NotParsed
    /\ pc = "api"
    /\ line = NotRead
    /\ eof = FALSE
    /\ out = <<>>

\* One call game.make_move(row, col) by the caller
MakeMove(row, col) ==
    /\ pc = "api"
    /\ \E r \in {call_make_move(game, row, col)} :
        /\ tiles' = r.game.tiles
        /\ current_piece' = r.game.current_piece
        /\ winner' = r.game.winner
        /\ prev' = game
        /\ last' = [op |-> "make_move", row |-> row, col |-> col, result |-> r.result]
        /\ moves' = IF r.result.kind = "Ok" THEN moves + 1 ELSE moves
    /\ UNCHANGED <<input, parsed, pc, line, eof, out>>

Next == \E row \in Coord : \E col \in Coord : MakeMove(row, col)

Spec == Init /\ [][Next]_vars

(***************************************************************************)
(* Strings.  A &str is its UTF-8 bytes, a sequence indexed from 1 here and  *)
(* from 0 in the code; every character of the alphabet is one byte except   *)
(* e-acute, which is the two bytes C3 A9.                                   *)
(***************************************************************************)
LF == "LF"
EAcute == <<"xC3", "xA9">>

\* characters of the strings given to parse_move
Chars ==
    {<<"1">>, <<"2">>, <<"3">>, <<"4">>, <<"A">>, <<"a">>, <<"B">>, <<"b">>,
     <<"C">>, <<"c">>, <<"D">>, <<" ">>, EAcute}

\* all strings of at most n characters of the set chars
RECURSIVE Strs(_, _)
Strs(chars, n) ==
    IF n = 0 THEN {<<>>}
    ELSE LET S == Strs(chars, n - 1) IN S \cup {s \o c : s \in S, c \in chars}

\* str::is_char_boundary, for the byte index i counted from 0
is_char_boundary(str, i) ==
    \/ i = 0
    \/ i = Len(str)
    \/ (i < Len(str) /\ str[i + 1] # "xA9")

\* &str[a..b] panics unless a <= b <= len and both lie on character boundaries
slice_panics(str, a, b) ==
    \/ a > b
    \/ b > Len(str)
    \/ ~is_char_boundary(str, a)
    \/ ~is_char_boundary(str, b)

\* &str[a..b]
slice(str, a, b) == SubSeq(str, a + 1, b)

\* struct InvalidMove(pub String), as the Err of parse_move
InvalidMove(str) == [kind |-> "InvalidMove", str |-> str]
\* Ok((row, col)) of parse_move
ParseOk(row, col) == [kind |-> "Ok", row |-> row, col |-> col]

\* parse_move mapping the row digit to itself instead of digit - 1
parse_move_row_offbyone(str) ==
    IF Len(str) # 2 THEN InvalidMove(str)
    ELSE IF slice_panics(str, 0, 1) THEN Panic
    ELSE LET first == slice(str, 0, 1) IN
         IF first \notin {<<"1">>, <<"2">>, <<"3">>} THEN InvalidMove(str)
         ELSE IF slice_panics(str, 1, 2) THEN Panic
         ELSE LET second == slice(str, 1, 2)
                  row == IF first = <<"1">> THEN 1 ELSE IF first = <<"2">> THEN 2 ELSE 3
              IN  IF second \in {<<"A">>, <<"a">>} THEN ParseOk(row, 0)
                  ELSE IF second \in {<<"B">>, <<"b">>} THEN ParseOk(row, 1)
                  ELSE IF second \in {<<"C">>, <<"c">>} THEN ParseOk(row, 2)
                  ELSE InvalidMove(second)

\* parse_move without the lowercase alternative for column C
parse_move_no_lower_c(str) ==
    IF Len(str) # 2 THEN InvalidMove(str)
    ELSE IF slice_panics(str, 0, 1) THEN Panic
    ELSE LET first == slice(str, 0, 1) IN
         IF first \notin {<<"1">>, <<"2">>, <<"3">>} THEN InvalidMove(str)
         ELSE IF slice_panics(str, 1, 2) THEN Panic
         ELSE LET second == slice(str, 1, 2)
                  row == IF first = <<"1">> THEN 0 ELSE IF first = <<"2">> THEN 1 ELSE 2
              IN  IF second \in {<<"A">>, <<"a">>} THEN ParseOk(row, 0)
                  ELSE IF second \in {<<"B">>, <<"b">>} THEN ParseOk(row, 1)
                  ELSE IF second \in {<<"C">>} THEN ParseOk(row, 2)
                  ELSE InvalidMove(second)

\* parse_move: the length test on the byte length, the row from &input[0..1],
\* the column from &input[1..2]; the last arm returns the matched slice
parse_move(str) ==
    IF Len(str) # 2 THEN InvalidMove(str)
    ELSE IF slice_panics(str, 0, 1) THEN Panic
    ELSE LET first == slice(str, 0, 1) IN
         IF first \notin {<<"1">>, <<"2">>, <<"3">>} THEN InvalidMove(str)
         ELSE IF slice_panics(str, 1, 2) THEN Panic
         ELSE LET second == slice(str, 1, 2)
                  row == IF first = <<"1">> THEN 0 ELSE IF first = <<"2">> THEN 1 ELSE 2
              IN  IF second \in {<<"A">>, <<"a">>} THEN ParseOk(row, 0)
                  ELSE IF second \in {<<"B">>, <<"b">>} THEN ParseOk(row, 1)
                  ELSE IF second \in {<<"C">>, <<"c">>} THEN ParseOk(row, 2)
                  ELSE InvalidMove(second)

\* str::trim_end: drop the trailing whitespace (here space and newline)
RECURSIVE trim_end(_)
trim_end(str) ==
    IF str # <<>> /\ str[Len(str)] \in {" ", LF}
    THEN trim_end(SubSeq(str, 1, Len(str) - 1))
    ELSE str

\* read_line returning the empty string at end of input instead of exiting
read_line_no_exit(raw) == [kind |-> "Line", str |-> trim_end(raw)]

\* read_line on the buffer raw that stdin's read_line filled: at end of input
\* (empty buffer) println and process::exit(0), otherwise the buffer
\* truncated to the length of its trim_end
read_line(raw) ==
    IF raw = <<>>
    THEN [kind |-> "Exit", code |-> 0]
    ELSE [kind |-> "Line", str |-> trim_end(raw)]

\* what the user types on a line of a session: a token for each of the nine
\* cells, a token followed by a space, and lines of each rejected shape
DriverBodies ==
    {<<"1", "A">>, <<"1", "b">>, <<"1", "C">>,
     <<"2", "a">>, <<"2", "B">>, <<"2", "c">>,
     <<"3", "A">>, <<"3", "b">>, <<"3", "C">>,
     <<"2", "B", " ">>,
     <<>>, <<"1">>, <<"4", "A">>, <<"0", "a">>, <<"1", "D">>, <<"A", "1">>,
     <<"1", "A", "1">>, EAcute}

\* what stdin's read_line appends to the buffer: nothing at end of input,
\* otherwise the typed characters and the newline
DriverLines == {<<>>} \cup {body \o <<LF>> : body \in DriverBodies}

(***************************************************************************)
(* parse_move on its own: an input string is chosen, then parsed.           *)
(***************************************************************************)
InitParse ==
    /\ tiles = Game_new.tiles
    /\ current_piece = Game_new.current_piece
    /\ winner = Game_new.winner
    /\ prev = Game_new
    /\ last = [op |-> "new"]
    /\ moves = 0
    /\ input \in Strs(Chars, MaxLen)
    /\ parsed = NotParsed
    /\ pc = "parse"
    /\ line = NotRead
    /\ eof = FALSE
    /\ out = <<>>

\* One call parse_move(&input)
ParseMove ==
    /\ pc = "parse"
    /\ parsed' = parse_move(input)
    /\ pc' = "parsed"
    /\ UNCHANGED <<tiles, current_piece, winner, prev, last, moves, input, line, eof, out>>

NextParse == ParseMove

SpecParse == InitParse /\ [][NextParse]_vars

(***************************************************************************)
(* read_line on its own: stdin delivers a buffer (empty at end of input,    *)
(* otherwise a line with its newline), then read_line runs on it.           *)
(***************************************************************************)
RawLines == {<<>>} \cup {body \o <<LF>> : body \in Strs(Chars, MaxLen)}

InitRead ==
    /\ tiles = Game_new.tiles
    /\ current_piece = Game_new.current_piece
    /\ winner = Game_new.winner
    /\ prev = Game_new
    /\ last = [op |-> "new"]
    /\ moves = 0
    /\ input \in RawLines
    /\ parsed = NotParsed
    /\ pc = "read"
    /\ line = NotRead
    /\ eof = FALSE
    /\ out = <<>>

\* One call read_line() on the buffer input
ReadLine ==
    /\ pc = "read"
    /\ line' = read_line(input)
    /\ eof' = (input = <<>>)
    /\ pc' = "read_done"
    /\ UNCHANGED <<tiles, current_piece, winner, prev, last, moves, input, parsed, out>>

NextRead == ReadLine

SpecRead == InitRead /\ [][NextRead]_vars

(***************************************************************************)
(* The session driver foundation(): the while loop over the game, with      *)
(* prompt_move and read_line.  pc is "loop" at the loop test, "prompt" at   *)
(* the top of prompt_move's loop, "done" after the outcome message, "exit0" *)
(* after process::exit(0), "unreachable" after an unreachable!() and        *)
(* "panic" after any other panic.                                           *)
(***************************************************************************)
InitDriver ==
    /\ tiles = Game_new.tiles
    /\ current_piece = Game_new.current_piece
    /\ winner = Game_new.winner
    /\ prev = Game_new
    /\ last = [op |-> "new"]
    /\ moves = 0
    /\ input = <<>>
    /\ parsed = NotParsed
    /\ pc = "loop"
    /\ line = NotRead
    /\ eof = FALSE
    /\ out = <<>>

\* The loop body without the print_tiles call
DriverRender_norender ==
    /\ pc = "loop"
    /\ ~is_finished(game)
    /\ pc' = "prompt"
    /\ out' = <<"current">>
    /\ UNCHANGED <<tiles, current_piece, winner, prev, last, moves, input, parsed,
                   line, eof>>

\* The loop test succeeds: print_tiles, the current piece, then prompt_move
DriverRender ==
    /\ pc = "loop"
    /\ ~is_finished(game)
    /\ pc' = "prompt"
    /\ out' = <<"tiles", "current">>
    /\ UNCHANGED <<tiles, current_piece, winner, prev, last, moves, input, parsed,
                   line, eof>>

\* The loop test fails: print_tiles and the outcome message
DriverFinish ==
    /\ pc = "loop"
    /\ is_finished(game)
    /\ pc' = "done"
    /\ out' = <<"tiles", "outcome">>
    /\ UNCHANGED <<tiles, current_piece, winner, prev, last, moves, input, parsed,
                   line, eof>>

\* One round of prompt_move's loop on the buffer raw read from stdin: the
\* prompt, read_line (exit at end of input, else trim), parse_move, and on Ok
\* the make_move call of foundation with the match on its result.  out is
\* what the step printed.
DriverPrompt(raw) ==
    /\ pc = "prompt"
    /\ UNCHANGED <<input, parsed, line>>
    /\ eof' = (raw = <<>>)
    /\ \E rl \in {read_line(raw)} :
       IF rl.kind = "Exit"
       THEN /\ pc' = "exit0"
            /\ out' = <<"prompt", "newline">>
            /\ UNCHANGED <<tiles, current_piece, winner, prev, last, moves>>
       ELSE \E p \in {parse_move(rl.str)} :
            IF p.kind # "Ok"
            THEN /\ pc' = (IF p.kind = "Panic" THEN "panic" ELSE "prompt")
                 /\ out' = (IF p.kind = "Panic" THEN <<"prompt">>
                            ELSE <<"prompt", "invalid">>)
                 /\ UNCHANGED <<tiles, current_piece, winner, prev, last, moves>>
            ELSE \E r \in {call_make_move(game, p.row, p.col)} :
                 /\ tiles' = r.game.tiles
                 /\ current_piece' = r.game.current_piece
                 /\ winner' = r.game.winner
                 /\ prev' = game
                 /\ last' = [op |-> "make_move", row |-> p.row, col |-> p.col,
                             result |-> r.result]
                 /\ moves' = IF r.result.kind = "Ok" THEN moves + 1 ELSE moves
                 /\ pc' = (IF r.result.kind \in {"GameAlreadyOver", "InvalidPosition"}
                           THEN "unreachable"
                           ELSE IF r.result.kind = "Panic" THEN "panic"
                           ELSE "loop")
                 /\ out' = (IF r.result.kind = "TileNotEmpty"
                            THEN <<"prompt", "occupied">>
                            ELSE <<"prompt">>)

NextDriver ==
    \/ DriverRender
    \/ DriverFinish
    \/ \E raw \in DriverLines : DriverPrompt(raw)

SpecDriver == InitDriver /\ [][NextDriver]_vars

TypeOK ==
    /\ tiles \in [Idx -> [Idx -> Tile]]
    /\ current_piece \in Piece
    /\ winner \in Winner \cup {None}
    /\ moves \in 0 .. (BOARD_SIZE * BOARD_SIZE)

\* the latest step was a make_move call
Called == last.op = "make_move"
CalledOk == Called /\ last.result.kind = "Ok"
CalledErr == Called /\ last.result.kind # "Ok"
OutOfRange == Called /\ (last.row >= BOARD_SIZE \/ last.col >= BOARD_SIZE)
Unchanged == game = prev

\* the Winner value that stands for a win of the given piece
WinOf(piece) == IF piece = PieceX THEN WinnerX ELSE WinnerO
\* the piece that moved in the latest call
Mover == prev.current_piece

\* C1: once the outcome is set, every further make_move call, whatever its
\* row and col, returns GameAlreadyOver and leaves the board, the current
\* piece and the winner unchanged.
C1_FinishedIsTerminal ==
    (Called /\ prev.winner # None) =>
        /\ last.result = GameAlreadyOver
        /\ Unchanged
C1_Witness ==
    /\ Called
    /\ prev.winner # None
    /\ last.row >= BOARD_SIZE
    /\ last.result.kind = "GameAlreadyOver"

\* C2: the outcome is set at most once: once winner is Some(w), it is
\* Some(w) after every later step.
C2_WinnerSetOnce == [][winner # None => winner' = winner]_vars
C2_Witness ==
    /\ Called
    /\ prev.winner # None
    /\ winner = prev.winner
    /\ last.row < BOARD_SIZE /\ last.col < BOARD_SIZE
    /\ tiles[last.row][last.col] = None

\* C3: the k-th successful move places X when k is odd and O when k is even,
\* the current piece after k successful moves is X when k is even and O when
\* k is odd, and a failed call does not change whose turn it is.
C3_TurnsAlternate ==
    /\ current_piece = (IF moves % 2 = 0 THEN PieceX ELSE PieceO)
    /\ CalledOk =>
          tiles[last.row][last.col] = (IF moves % 2 = 1 THEN PieceX ELSE PieceO)
    /\ CalledErr => current_piece = prev.current_piece
C3_Witness ==
    /\ CalledErr
    /\ moves = 3
    /\ current_piece = PieceO

\* C4: every make_move call that returns an error leaves the board, the
\* current piece and the winner as they were before the call.
C4_ErrorsChangeNothing == CalledErr => Unchanged
C4_Witness ==
    /\ Called
    /\ last.result.kind = "TileNotEmpty"
    /\ moves >= 1

\* C5 as stated: a make_move call with an out-of-range coordinate returns
\* InvalidPosition in every reachable state of the game.
C5_AlwaysInvalidPosition == OutOfRange => last.result.kind = "InvalidPosition"

\* C5 (amended): a make_move call with an out-of-range coordinate returns
\* InvalidPosition whenever the game is in progress, and GameAlreadyOver
\* once the game is finished.
C5_OutOfRangeResult ==
    OutOfRange =>
        last.result.kind =
            (IF prev.winner = None THEN "InvalidPosition" ELSE "GameAlreadyOver")
C5_Witness ==
    /\ OutOfRange
    /\ last.row < BOARD_SIZE
    /\ prev.winner = None
    /\ moves >= 1
    /\ last.result.kind = "InvalidPosition"

\* the latest call named an in-range cell that held a piece before the call
OnOccupied ==
    /\ Called
    /\ last.row < BOARD_SIZE /\ last.col < BOARD_SIZE
    /\ prev.tiles[last.row][last.col] # None

\* C6 as stated: a make_move call on an occupied in-range cell returns
\* TileNotEmpty with that cell's piece and the call's row and col, in every
\* reachable state of the game.
C6_AlwaysTileNotEmpty ==
    OnOccupied =>
        last.result = TileNotEmpty(prev.tiles[last.row][last.col], last.row, last.col)

\* C6 (amended): a make_move call on an occupied in-range cell made while the
\* game is in progress returns TileNotEmpty whose other_piece is the piece
\* stored in the cell and whose row and col are the arguments; once the game
\* is finished the call returns GameAlreadyOver.
C6_OccupiedResult ==
    OnOccupied =>
        last.result =
            (IF prev.winner = None
             THEN TileNotEmpty(prev.tiles[last.row][last.col], last.row, last.col)
             ELSE GameAlreadyOver)
C6_Witness ==
    /\ OnOccupied
    /\ prev.winner = None
    /\ last.result.kind = "TileNotEmpty"
    /\ last.result.other_piece # prev.current_piece

\* C7: a successful make_move(row, col) writes the piece that was current
\* before the call into cell (row, col), leaves the other eight cells
\* unchanged and flips the current piece, also when the move ends the game.
C7_SuccessfulMoveEffect ==
    CalledOk =>
        /\ tiles[last.row][last.col] = Mover
        /\ \A r \in Idx : \A c \in Idx :
              (r # last.row \/ c # last.col) => tiles[r][c] = prev.tiles[r][c]
        /\ current_piece \in Piece
        /\ current_piece # Mover
C7_Witness ==
    /\ CalledOk
    /\ winner = WinnerX
    /\ current_piece = PieceO
    /\ tiles[last.row][last.col] = PieceX

\* C8: Game::new() yields nine empty cells, current piece X, no winner and
\* is_finished() false.
C8_NewGame ==
    last.op = "new" =>
        /\ \A r \in Idx : \A c \in Idx : tiles[r][c] = None
        /\ current_piece = PieceX
        /\ winner = None
        /\ ~is_finished(game)
C8_Witness == last.op = "new" /\ moves = 0

\* row r, or column c, of the board holds the piece p in all three cells
RowOf(t, r, p) == \A c \in Idx : t[r][c] = p
ColOf(t, c, p) == \A r \in Idx : t[r][c] = p

\* C9: whenever a successful make_move(row, col) in an in-progress game
\* leaves the whole row `row` or the whole column `col` holding the mover's
\* piece, winner is that piece's win right after the call.
C9_RowOrColumnWins ==
    (CalledOk /\ (RowOf(tiles, last.row, Mover) \/ ColOf(tiles, last.col, Mover))) =>
        winner = WinOf(Mover)
C9_Witness ==
    /\ CalledOk
    /\ ColOf(tiles, last.col, Mover)
    /\ ~RowOf(tiles, last.row, Mover)
    /\ Mover = PieceO
    /\ winner = WinnerO

\* cells (0,0), (1,1), (2,2) all hold the piece p
Diag1Of(t, p) == \A i \in Idx : t[i][i] = p

\* C10: whenever a successful make_move(row, col) with row = col leaves cells
\* (0,0), (1,1), (2,2) all holding the mover's piece, winner is that piece's
\* win right after the call.
C10_MainDiagonalWins ==
    (CalledOk /\ last.row = last.col /\ Diag1Of(tiles, Mover)) =>
        winner = WinOf(Mover)
C10_Witness ==
    /\ CalledOk
    /\ last.row = 0 /\ last.col = 0
    /\ Diag1Of(tiles, Mover)
    /\ ~RowOf(tiles, 0, Mover) /\ ~ColOf(tiles, 0, Mover)
    /\ winner = WinOf(Mover)

\* cells (0,2), (1,1), (2,0) all hold the piece p
Diag2Of(t, p) == \A i \in Idx : t[i][BOARD_SIZE - 1 - i] = p

\* C11: whenever a successful make_move(row, col) with row + col = 2 leaves
\* cells (0,2), (1,1), (2,0) all holding the mover's piece, winner is that
\* piece's win right after the call.
C11_AntiDiagonalWins ==
    (CalledOk /\ last.row + last.col = 2 /\ Diag2Of(tiles, Mover)) =>
        winner = WinOf(Mover)
C11_Witness ==
    /\ CalledOk
    /\ last.row = 2 /\ last.col = 0
    /\ Diag2Of(tiles, Mover)
    /\ ~RowOf(tiles, 2, Mover) /\ ~ColOf(tiles, 0, Mover)
    /\ winner = WinOf(Mover)

\* full-board scan: some row, column or diagonal holds the piece p three times
HasLine(t, p) ==
    \/ \E r \in Idx : RowOf(t, r, p)
    \/ \E c \in Idx : ColOf(t, c, p)
    \/ Diag1Of(t, p)
    \/ Diag2Of(t, p)
NoLine(t) == ~HasLine(t, PieceX) /\ ~HasLine(t, PieceO)
Occupied(t) == Cardinality({rc \in Idx \X Idx : t[rc[1]][rc[2]] # None})
FullBoard(t) == Occupied(t) = BOARD_SIZE * BOARD_SIZE

\* C12: in a run of successful moves that fills the board without any row,
\* column or diagonal of three equal pieces, winner is Tie after the ninth
\* move and None after each of the first eight.
C12_TieOnFullBoard ==
    NoLine(tiles) =>
        /\ moves = 9 => winner = WinnerTie
        /\ moves < 9 => winner = None
C12_Witness ==
    /\ CalledOk
    /\ moves = 9
    /\ NoLine(tiles)
    /\ winner = WinnerTie
    /\ prev.winner = None

\* C13: make_move never panics: every call returns Ok or one of the three
\* errors; on the path into update_winner the indices are in bounds, the
\* board-size assertion holds and rows - row - 1 does not underflow.
C13_NeverPanics ==
    Called =>
        /\ last.result.kind \in {"Ok", "GameAlreadyOver", "InvalidPosition", "TileNotEmpty"}
        /\ last.result.kind = "Ok" =>
              /\ last.row < BOARD_SIZE /\ last.col < BOARD_SIZE
              /\ BOARD_SIZE = 3
              /\ BOARD_SIZE - last.row - 1 >= 0
C13_Witness ==
    /\ CalledOk
    /\ last.row = BOARD_SIZE - 1
    /\ last.col = 1
    /\ moves = 1

\* C16: the incremental win check agrees with a full-board scan: winner is
\* Some(X) or Some(O) exactly when the board holds a complete line of that
\* piece, Some(Tie) exactly when the board is full without a complete line,
\* and None otherwise.
C16_AgreesWithFullScan ==
    /\ winner = WinnerX <=> HasLine(tiles, PieceX)
    /\ winner = WinnerO <=> HasLine(tiles, PieceO)
    /\ winner = WinnerTie <=> (FullBoard(tiles) /\ NoLine(tiles))
    /\ winner = None <=> (~FullBoard(tiles) /\ NoLine(tiles))
C16_Witness ==
    /\ CalledOk
    /\ winner = WinnerO
    /\ HasLine(tiles, PieceO)
    /\ Diag2Of(tiles, PieceO)
    /\ moves = 8

\* C17: no reachable board holds both a complete line of X and a complete
\* line of O.
C17_NoTwoWinners == ~(HasLine(tiles, PieceX) /\ HasLine(tiles, PieceO))
C17_Witness ==
    /\ Called
    /\ prev.winner = WinnerX
    /\ HasLine(tiles, PieceX)
    /\ last.row < BOARD_SIZE /\ last.col < BOARD_SIZE
    /\ tiles[last.row][last.col] = None
    /\ \E r \in Idx : Cardinality({c \in Idx : tiles[r][c] = PieceO}) = 2
                      /\ tiles[r][last.col] = None /\ r = last.row

\* C18: a win takes precedence over a tie: when the move that fills the
\* ninth cell also completes a line for the mover, winner is the mover's win
\* and not Tie.
C18_WinBeforeTie ==
    (CalledOk /\ FullBoard(tiles) /\ HasLine(tiles, Mover)) =>
        /\ winner = WinOf(Mover)
        /\ winner # WinnerTie
C18_Witness ==
    /\ CalledOk
    /\ moves = 9
    /\ FullBoard(tiles)
    /\ HasLine(tiles, PieceX)
    /\ winner = WinnerX

\* what make_move(row, col) returns on an in-progress game with board t
ExpectedResult(t, row, col) ==
    IF row >= BOARD_SIZE \/ col >= BOARD_SIZE THEN InvalidPosition(row, col)
    ELSE IF t[row][col] # None THEN TileNotEmpty(t[row][col], row, col)
    ELSE ResOk

\* C19: while the game is in progress the result of make_move(row, col) is
\* determined by the arguments and the board: InvalidPosition with the given
\* row and col if row >= 3 or col >= 3, otherwise TileNotEmpty if the cell is
\* occupied, otherwise Ok; and make_move returns Ok if and only if the game
\* is in progress, the coordinate is in range and the cell is empty.
C19_ResultDetermined ==
    Called =>
        /\ prev.winner = None =>
              last.result = ExpectedResult(prev.tiles, last.row, last.col)
        /\ last.result.kind = "Ok" <=>
              /\ prev.winner = None
              /\ ExpectedResult(prev.tiles, last.row, last.col) = ResOk
C19_Witness ==
    /\ Called
    /\ prev.winner = None
    /\ last.row = 1 /\ last.col >= BOARD_SIZE
    /\ prev.tiles[1][1] # None
    /\ last.result = InvalidPosition(last.row, last.col)

\* the eighteen move tokens: a digit 1..3 followed by a letter A..C in either case
IsToken(str) ==
    /\ Len(str) = 2
    /\ str[1] \in {"1", "2", "3"}
    /\ str[2] \in {"A", "a", "B", "b", "C", "c"}
RowOfDigit(b) == IF b = "1" THEN 0 ELSE IF b = "2" THEN 1 ELSE 2
ColOfLetter(b) == IF b \in {"A", "a"} THEN 0 ELSE IF b \in {"B", "b"} THEN 1 ELSE 2

\* C14: parse_move maps a two-character token to (row, col), first character
\* 1/2/3 giving row 0/1/2 and second character A/a, B/b, C/c giving column
\* 0/1/2; it accepts exactly those 18 tokens, and every accepted result has
\* row < 3 and col < 3.
C14_ParseTokens ==
    pc = "parsed" =>
        /\ parsed.kind = "Ok" <=> IsToken(input)
        /\ IsToken(input) =>
              parsed = ParseOk(RowOfDigit(input[1]), ColOfLetter(input[2]))
        /\ parsed.kind = "Ok" => (parsed.row < BOARD_SIZE /\ parsed.col < BOARD_SIZE)
C14_Witness ==
    /\ pc = "parsed"
    /\ input = <<"3", "c">>
    /\ parsed = ParseOk(2, 2)

\* C15: whenever parse_move rejects a token (length not 2, invalid first
\* character or invalid second character), the InvalidMove it returns
\* carries the original, complete input token.
C15_ErrCarriesInput ==
    (pc = "parsed" /\ parsed.kind = "InvalidMove") => parsed.str = input

\* C20: in the session driver the make_move call of the loop never returns
\* GameAlreadyOver and never returns InvalidPosition, so neither
\* unreachable!() is reached: the game is not finished at the call and the
\* coordinates from prompt_move lie in [0,3) x [0,3).
C20_UnreachableNotReached ==
    /\ pc # "unreachable"
    /\ Called =>
          /\ last.result.kind \notin {"GameAlreadyOver", "InvalidPosition"}
          /\ prev.winner = None
          /\ last.row < BOARD_SIZE /\ last.col < BOARD_SIZE
C20_Witness ==
    /\ pc = "done"
    /\ CalledOk
    /\ last.row = BOARD_SIZE - 1
    /\ moves = 9
    /\ winner = WinnerTie

\* C21 as stated: the board is rendered before each prompt for a move
\* (between any two consecutive prompts there is a render) and once more
\* after the game has finished, before the outcome message.
C21_RenderBeforeEveryPrompt ==
    /\ pc = "prompt" => out = <<"tiles", "current">>
    /\ pc = "done" => out = <<"tiles", "outcome">>

\* C21 (amended): the board is rendered before each call of prompt_move,
\* once per round of the game loop, and once more after the game has
\* finished, before the outcome message; inside prompt_move a prompt that
\* follows an invalid line is printed with no render in between.
C21_RenderBeforeEachRound ==
    /\ pc = "prompt" =>
          \/ out = <<"tiles", "current">>
          \/ out = <<"prompt", "invalid">>
    /\ pc = "loop" => (out = <<>> \/ out[1] = "prompt")
    /\ pc = "done" => out = <<"tiles", "outcome">>
C21_Witness ==
    /\ pc = "prompt"
    /\ out = <<"prompt", "invalid">>
    /\ moves >= 1
    /\ winner = None

\* C22: parse_move never panics: for every input string, also one of byte
\* length 2 that is not two one-byte characters, it returns Ok((row, col))
\* or Err(InvalidMove).
C22_ParseNeverPanics ==
    pc = "parsed" => parsed.kind \in {"Ok", "InvalidMove"}

\* C23: when the line reader reaches end of input the process terminates
\* with exit code 0: the step makes no move and prints no outcome message,
\* and no step follows it.
C23_EofExits ==
    [][/\ ~eof
       /\ eof' =>
            /\ pc' = "exit0"
            /\ read_line(<<>>) = [kind |-> "Exit", code |-> 0]
            /\ UNCHANGED <<tiles, current_piece, winner, prev, last, moves>>
            /\ out' = <<"prompt", "newline">>]_vars
C23_Witness ==
    /\ eof
    /\ pc = "exit0"
    /\ moves >= 3
    /\ winner = None

\* the buffer without its final newline, everything else kept
strip_newline(raw) ==
    IF raw # <<>> /\ raw[Len(raw)] = LF THEN SubSeq(raw, 1, Len(raw) - 1) ELSE raw

\* C24: read_line returns the entered line with its trailing newline
\* stripped and the rest of the text unchanged, trailing spaces included.
C24_OnlyNewlineStripped ==
    (pc = "read_done" /\ line.kind = "Line") => line.str = strip_newline(input)

\* number of cells holding the piece p
CountOf(t, p) == Cardinality({rc \in Idx \X Idx : t[rc[1]][rc[2]] = p})

\* C25: the number of X cells minus the number of O cells is 0 or 1, and the
\* current piece is X exactly when the two counts are equal.
C25_CountsBalanced ==
    /\ CountOf(tiles, PieceX) - CountOf(tiles, PieceO) \in {0, 1}
    /\ current_piece = PieceX <=> CountOf(tiles, PieceX) = CountOf(tiles, PieceO)
C25_Witness ==
    /\ CalledErr
    /\ CountOf(tiles, PieceX) = 3
    /\ CountOf(tiles, PieceO) = 2
    /\ current_piece = PieceO

\* C26: whenever winner becomes Some(X) or Some(O), the winning piece is the
\* piece placed by the move that set it, which is the piece opposite to the
\* current piece right after that move.
C26_WinnerIsMover ==
    (CalledOk /\ prev.winner = None /\ winner \in {WinnerX, WinnerO}) =>
        /\ winner = WinOf(tiles[last.row][last.col])
        /\ winner = WinOf(Mover)
        /\ winner = (IF current_piece = PieceX THEN WinnerO ELSE WinnerX)
C26_Witness ==
    /\ CalledOk
    /\ prev.winner = None
    /\ winner = WinnerO
    /\ current_piece = PieceX

\* C27: winner is None after fewer than five successful moves, Some(X) is
\* set only by the 5th, 7th or 9th successful move, Some(O) only by the 6th
\* or 8th, Some(Tie) only by the 9th.
C27_OutcomeMoveCounts ==
    /\ moves < 5 => winner = None
    /\ winner = WinnerX => moves \in {5, 7, 9}
    /\ winner = WinnerO => moves \in {6, 8}
    /\ winner = WinnerTie => moves = 9
C27_Witness ==
    /\ CalledOk
    /\ winner = WinnerX
    /\ moves = 7

\* a make_move call that returns Ok
OkMove ==
    \E row \in Idx : \E col \in Idx :
        MakeMove(row, col) /\ moves' = moves + 1

\* a make_move call on a cell of the board
NextLive == \E row \in Idx : \E col \in Idx : MakeMove(row, col)

\* callers that name cells of the board, in any order and with any number of
\* failed calls, and keep making successful moves while one is possible
SpecFair == Init /\ [][NextLive]_vars /\ WF_vars(OkMove)

\* C28: every game ends: at most nine make_move calls return Ok, the number
\* of occupied cells equals the number of calls that returned Ok, after the
\* ninth Ok the game is finished, and a run in which successful moves keep
\* being made reaches the finished state.
C28_EveryGameEnds ==
    /\ [](/\ moves <= 9
          /\ Occupied(tiles) = moves
          /\ moves = 9 => is_finished(game))
    /\ <>is_finished(game)
C28_Witness ==
    /\ CalledOk
    /\ moves = 9
    /\ Occupied(tiles) = 9
    /\ is_finished(game)

\* C29: no in-progress state is stuck: while is_finished() is false at least
\* one cell is empty and make_move on it returns Ok.
C29_NotStuck ==
    ~is_finished(game) =>
        \E r \in Idx : \E c \in Idx :
            /\ tiles[r][c] = None
            /\ call_make_move(game, r, c).result = ResOk
C29_Witness ==
    /\ CalledOk
    /\ ~is_finished(game)
    /\ moves = 8

\* C30: the board only fills up: a cell that holds a piece holds the same
\* piece after every later step.
C30_CellsKeepTheirPiece ==
    [][\A r \in Idx : \A c \in Idx :
          tiles[r][c] # None => tiles'[r][c] = tiles[r][c]]_vars
C30_Witness ==
    /\ Called
    /\ last.result.kind = "TileNotEmpty"
    /\ last.result.other_piece # prev.current_piece
    /\ tiles[last.row][last.col] = last.result.other_piece

====
